---- MODULE Spec2Model ----
(***************************************************************************)
(* State machine of the App component of src/src/App.js: the React state   *)
(* of the component, the fetch calls in flight, the pending setTimeout     *)
(* callbacks, and the backend the fetch calls talk to.                     *)
(*                                                                         *)
(* One step of the model is one run-to-completion piece of JavaScript: an  *)
(* event handler up to its first await on the network, or the continuation *)
(* of a handler after the response has arrived.  A continuation works on   *)
(* the values its closure captured when the handler was invoked (email,    *)
(* isAdmin, viewSuggestion, loadSuggestions); they are stored in the       *)
(* request it waits for.                                                   *)
(***************************************************************************)
EXTENDS Integers, Sequences, FiniteSets, Bags

\* ---------------------------------------------------------------- bounds
MaxId == 2          \* suggestion ids known to the backend: 1..MaxId
MaxInFlight == 2    \* fetch calls outstanding at once
MaxTimers == 2      \* setTimeout callbacks pending at once
MaxCalls == 4       \* fetch calls issued in one run
MaxRows == 3        \* records in the cache the filter pipeline is run on

Ids == 1..MaxId

\* ---------------------------------------------------- values of the state
\* A Suggestion as far as the handlers read it: _id and status.
\* id = 0 is JavaScript's null (no record).
NoRec == [id |-> 0, status |-> ""]
Rec(i, s) == [id |-> i, status |-> s]

\* notification = null
NoNote == [message |-> "", type |-> ""]
Note(m, t) == [message |-> m, type |-> t]

\* The accounts the identity provider can hand a credential for, and the
\* identity the auth endpoint returns for each.
Accounts == {"student", "hod", "principal"}
AccountInfo(a) ==
  [email |-> a,
   isAdmin |-> a \in {"hod", "principal"},
   isPrincipal |-> a = "principal",
   department |-> IF a = "hod" THEN "CS" ELSE ""]

\* The error string of a non-2xx JSON body {error: ...}.
ServerError == "server error"

VARIABLES
  loggedIn, email, isAdmin, isPrincipal, department,   \* Session
  suggestions,        \* Collection Cache: sequence of records
  viewSuggestion,     \* Detail View Selection: a record, or NoRec
  statusFilter, categoryFilter, searchTerm, sortOrder,   \* Filter Controls
  loading,            \* busy flag of the refresh button
  notification,       \* live notification, or NoNote
  timers,             \* number of pending setTimeout callbacks (FIFO, equal delay)
  inflight,           \* bag of the fetch calls outstanding
  calls,              \* number of fetch calls issued so far
  last,               \* history: the last step of the component
  db                  \* backend: Ids -> record (NoRec when absent)

vars == <<loggedIn, email, isAdmin, isPrincipal, department, suggestions,
          viewSuggestion, statusFilter, categoryFilter, searchTerm, sortOrder,
          loading, notification, timers, inflight, calls, last, db>>

session == <<loggedIn, email, isAdmin, isPrincipal, department>>

\* The filter controls are written by their own onChange handlers only
\* (ChangeStatusFilter .. ChangeSortOrder below); no other handler reads or
\* writes them.
controls == <<statusFilter, categoryFilter, searchTerm, sortOrder>>

\* ------------------------------------------------------- fetch calls
\* A fetch call and what its continuation captured when the handler ran:
\*   kind       login | load | create | delete | status | view
\*   id, status the arguments of the handler
\*   acct       the account of the credential (login)
\*   cEmail, cAdmin, cView   closure values of email, isAdmin and
\*              viewSuggestion._id (0 for null)
\*   updatedBy  the updatedBy of the PATCH body
\*   cont       who awaits a load: effect | refresh | create
\*   out, body  the response, out = "" while the backend has not answered:
\*              ok      2xx with a body of the documented shape
\*              okOdd   2xx whose JSON body is not an array (list calls)
\*              err     non-2xx with JSON body {error: ServerError}
\*              errNoMsg non-2xx with a JSON body without an error field
\*              throw   fetch rejected, or the body read by the handler
\*                      is not JSON
NoReq ==
  [kind |-> "", id |-> 0, status |-> "", acct |-> "", cEmail |-> "",
   cAdmin |-> FALSE, cView |-> 0, updatedBy |-> "", cont |-> "",
   out |-> "", body |-> <<>>]

Outcomes == {"ok", "okOdd", "err", "errNoMsg", "throw"}

\* fetch(...) from a handler.
Fetch(r) == /\ BagCardinality(inflight) < MaxInFlight
            /\ calls < MaxCalls
            /\ calls' = calls + 1
            /\ inflight' = inflight (+) SetToBag({r})

\* The continuation of the call r runs: the call is over, or the
\* continuation issues the next fetch.
Answered(r, k) == r.kind = k /\ r.out # ""
Done(r) == /\ inflight' = inflight (-) SetToBag({r})
           /\ UNCHANGED calls
Refetch(r, r2) == /\ calls < MaxCalls
                  /\ calls' = calls + 1
                  /\ inflight' = (inflight (-) SetToBag({r})) (+) SetToBag({r2})

\* showNotification called for each element of notes, in order:
\* setNotification({message, type}); setTimeout(() => setNotification(null), 4000)
showNotification(notes) ==
  /\ timers + Len(notes) <= MaxTimers
  /\ timers' = timers + Len(notes)
  /\ notification' = IF notes = <<>> THEN notification ELSE notes[Len(notes)]

\* History: the handler or continuation that ran last, and the id it was
\* about (0 when it has none).
Step(op, id) == last' = [op |-> op, id |-> id] /\ UNCHANGED controls

\* The fetch of loadSuggestions, with the email and isAdmin its useCallback
\* closure holds.
LoadReq(em, adm, cont) ==
  [NoReq EXCEPT !.kind = "load", !.cEmail = em, !.cAdmin = adm, !.cont = cont]

\* ------------------------------------------------------------ backend
\* The REST service behind API_BASE_URL.  It holds the suggestions, answers
\* each call once, and may fail any call.
Present(d, id) == d[id].id # 0
ListOf(d) == SelectSeq(d, LAMBDA r : r.id # 0)
HasFreeId(d) == \E id \in Ids : ~Present(d, id)
FreeId(d) == CHOOSE id \in Ids :
               /\ ~Present(d, id)
               /\ \A j \in Ids : ~Present(d, j) => id <= j

\* The status workflow the backend applies: forward only.
Forward(s, t) ==
  \/ s = "pending" /\ t \in {"in-progress", "resolved", "invalid"}
  \/ s = "in-progress" /\ t \in {"resolved", "invalid"}

CanServe(r, d) ==
  CASE r.kind = "create" -> HasFreeId(d)
    [] r.kind = "delete" -> Present(d, r.id)
    [] r.kind = "status" -> Present(d, r.id) /\ Forward(d[r.id].status, r.status)
    [] r.kind = "view"   -> Present(d, r.id)
    [] OTHER -> TRUE

Effect(r, d) ==
  CASE r.kind = "create" -> [d EXCEPT ![FreeId(d)] = Rec(FreeId(d), "pending")]
    [] r.kind = "delete" -> [d EXCEPT ![r.id] = NoRec]
    [] r.kind = "status" -> [d EXCEPT ![r.id] = Rec(r.id, r.status)]
    [] OTHER -> d

Body(r, d) ==
  CASE r.kind = "load" -> ListOf(d)
    [] r.kind \in {"status", "view"} -> <<d[r.id]>>
    [] OTHER -> <<>>

\* The backend answers the call r.  A rejected fetch ("throw") may or may
\* not have reached the backend.
Backend(r) ==
  /\ r.kind # ""
  /\ r.out = ""
  /\ \E out \in Outcomes, applied \in BOOLEAN :
       LET does == CanServe(r, db) /\ (out = "ok" \/ (out = "throw" /\ applied))
           d2 == IF does THEN Effect(r, db) ELSE db
       IN /\ out = "ok" => CanServe(r, db)
          /\ out = "okOdd" => r.kind = "load"
          /\ applied => out = "throw"
          /\ db' = d2
          /\ inflight' = (inflight (-) SetToBag({r})) (+)
                SetToBag({[r EXCEPT !.out = out,
                             !.body = IF out = "ok" THEN Body(r, d2) ELSE <<>>]})
  /\ UNCHANGED <<session, suggestions, viewSuggestion, loading, notification,
                 timers, calls, last, controls>>

\* -------------------------------------------------------------- session
\* The message of a failed call: err.error || fallback, or the catch block.
ErrMsg(out, fallback, generic) ==
  CASE out = "err" -> ServerError
    [] out = "errNoMsg" -> fallback
    [] OTHER -> generic

\* handleCredentialResponse without a credential.
LoginNoCredential ==
  /\ Step("loginNoCred", 0)
  /\ ~loggedIn
  /\ showNotification(<<Note("No credential returned", "error")>>)
  /\ UNCHANGED <<session, suggestions, viewSuggestion, loading, inflight, calls, db>>

\* handleCredentialResponse up to the fetch of /api/auth/google.
LoginIssue(a) ==
  /\ Step("loginIssue", 0)
  /\ ~loggedIn
  /\ Fetch([NoReq EXCEPT !.kind = "login", !.acct = a])
  /\ UNCHANGED <<session, suggestions, viewSuggestion, loading, notification,
                 timers, db>>

\* res.ok: the five setters in one batch, then the effect on
\* [loggedIn, loadSuggestions], which calls loadSuggestions() of the new
\* render when loggedIn, email or isAdmin changed.
LoginOk(r) ==
  /\ Step("loginOk", 0)
  /\ Answered(r, "login")
  /\ r.out = "ok"
  /\ LET info == AccountInfo(r.acct)
         rerun == ~loggedIn \/ email # info.email \/ isAdmin # info.isAdmin
     IN /\ email' = info.email
        /\ isAdmin' = info.isAdmin
        /\ isPrincipal' = info.isPrincipal
        /\ department' = info.department
        /\ loggedIn' = TRUE
        /\ IF rerun /\ info.email # ""
             THEN Refetch(r, LoadReq(info.email, info.isAdmin, "effect"))
             ELSE Done(r)
  /\ showNotification(<<Note("Logged in successfully!", "success")>>)
  /\ UNCHANGED <<suggestions, viewSuggestion, loading, db>>

\* handleCredentialResponse that sets the email before it looks at res.ok.
LoginFail_partial(r) ==
  /\ Step("loginFail", 0)
  /\ Answered(r, "login")
  /\ r.out # "ok"
  /\ email' = r.acct
  /\ showNotification(<<Note(ErrMsg(r.out, "Login failed",
                                    "Login error. Check console."), "error")>>)
  /\ Done(r)
  /\ UNCHANGED <<loggedIn, isAdmin, isPrincipal, department, suggestions,
                 viewSuggestion, loading, db>>

\* !res.ok, or the catch block.
LoginFail(r) ==
  /\ Step("loginFail", 0)
  /\ Answered(r, "login")
  /\ r.out # "ok"
  /\ showNotification(<<Note(ErrMsg(r.out, "Login failed",
                                    "Login error. Check console."), "error")>>)
  /\ Done(r)
  /\ UNCHANGED <<session, suggestions, viewSuggestion, loading, db>>

\* The React state handleLogout's setters write, as one value.
View ==
  [loggedIn |-> loggedIn, email |-> email, isAdmin |-> isAdmin,
   isPrincipal |-> isPrincipal, department |-> department,
   suggestions |-> suggestions, viewSuggestion |-> viewSuggestion,
   notification |-> notification]

\* handleLogout without setSuggestions([]).
LogoutResult_keepCache(st) ==
  [st EXCEPT !.loggedIn = FALSE, !.email = "", !.isAdmin = FALSE,
             !.isPrincipal = FALSE, !.department = "",
             !.viewSuggestion = NoRec,
             !.notification = Note("Logged out successfully", "info")]

\* The setters of handleLogout applied to the state st; the last write to
\* notification is the one of showNotification.
LogoutResult(st) ==
  [st EXCEPT !.loggedIn = FALSE, !.email = "", !.isAdmin = FALSE,
             !.isPrincipal = FALSE, !.department = "",
             !.suggestions = <<>>, !.viewSuggestion = NoRec,
             !.notification = Note("Logged out successfully", "info")]

\* The Logout button (rendered when loggedIn).
handleLogout ==
  /\ Step("logout", 0)
  /\ loggedIn
  /\ LET st == LogoutResult(View)
     IN /\ loggedIn' = st.loggedIn
        /\ email' = st.email
        /\ isAdmin' = st.isAdmin
        /\ isPrincipal' = st.isPrincipal
        /\ department' = st.department
        /\ suggestions' = st.suggestions
        /\ viewSuggestion' = st.viewSuggestion
        /\ showNotification(<<st.notification>>)
  /\ UNCHANGED <<loading, inflight, calls, db>>

\* The callback of setTimeout(() => setNotification(null), 4000).  The
\* delays are equal, so the callbacks run in the order they were scheduled.
TimerFire ==
  /\ Step("timer", 0)
  /\ timers > 0
  /\ timers' = timers - 1
  /\ notification' = NoNote
  /\ UNCHANGED <<session, suggestions, viewSuggestion, loading, inflight, calls, db>>

\* ---------------------------------------------------- collection cache
InCache(id) == \E k \in 1..Len(suggestions) : suggestions[k].id = id
CachedStatus(id) ==
  suggestions[CHOOSE k \in 1..Len(suggestions) : suggestions[k].id = id].status

\* loadSuggestions that merges the response into the cache.
LoadResult_merge(prev, r) == IF r.out = "ok" THEN prev \o r.body ELSE <<>>

\* setSuggestions of loadSuggestions for a response: the array on 2xx,
\* [] for a 2xx non-array, a non-2xx or a caught error.
LoadResult(prev, r) == IF r.out = "ok" THEN r.body ELSE <<>>

\* onSubmit that notifies before it awaits loadSuggestions().
AfterLoad_early(cont) ==
  CASE cont = "refresh" -> <<Note("Suggestions refreshed", "info")>>
    [] OTHER -> <<>>

\* What the awaiting caller does once loadSuggestions() has returned:
\* handleRefresh clears the busy flag and notifies, onSubmit notifies.
AfterLoad(cont) ==
  CASE cont = "refresh" -> <<Note("Suggestions refreshed", "info")>>
    [] cont = "create" -> <<Note("Suggestion submitted!", "success")>>
    [] OTHER -> <<>>

\* The Refresh button (disabled while loading).  loadSuggestions returns at
\* once when email is empty.
handleRefresh ==
  /\ Step("refresh", 0)
  /\ loggedIn
  /\ ~loading
  /\ IF email = ""
       THEN /\ loading' = FALSE
            /\ showNotification(AfterLoad("refresh"))
            /\ UNCHANGED <<inflight, calls>>
       ELSE /\ loading' = TRUE
            /\ Fetch(LoadReq(email, isAdmin, "refresh"))
            /\ UNCHANGED <<notification, timers>>
  /\ UNCHANGED <<session, suggestions, viewSuggestion, db>>

\* loadSuggestions after a 2xx response whose body parsed.
LoadOk(r) ==
  /\ Step("loadOk", 0)
  /\ Answered(r, "load")
  /\ r.out \in {"ok", "okOdd"}
  /\ suggestions' = LoadResult(suggestions, r)
  /\ loading' = IF r.cont = "refresh" THEN FALSE ELSE loading
  /\ showNotification(AfterLoad(r.cont))
  /\ Done(r)
  /\ UNCHANGED <<session, viewSuggestion, db>>

\* handleRefresh that clears the busy flag only after a load that succeeded.
LoadFail_busy(r) ==
  /\ Step("loadFail", 0)
  /\ Answered(r, "load")
  /\ r.out \notin {"ok", "okOdd"}
  /\ suggestions' = LoadResult(suggestions, r)
  /\ loading' = loading
  /\ showNotification(
       <<Note(IF r.out = "throw"
                THEN "Failed to load suggestions. Check console."
                ELSE "Failed to load suggestions", "error")>>
       \o AfterLoad(r.cont))
  /\ Done(r)
  /\ UNCHANGED <<session, viewSuggestion, db>>

\* loadSuggestions after a non-2xx response or in its catch block.
LoadFail(r) ==
  /\ Step("loadFail", 0)
  /\ Answered(r, "load")
  /\ r.out \notin {"ok", "okOdd"}
  /\ suggestions' = LoadResult(suggestions, r)
  /\ loading' = IF r.cont = "refresh" THEN FALSE ELSE loading
  /\ showNotification(
       <<Note(IF r.out = "throw"
                THEN "Failed to load suggestions. Check console."
                ELSE "Failed to load suggestions", "error")>>
       \o AfterLoad(r.cont))
  /\ Done(r)
  /\ UNCHANGED <<session, viewSuggestion, db>>

\* onSubmit of the suggestion form (students only) up to its fetch.
CreateIssue ==
  /\ Step("createIssue", 0)
  /\ loggedIn
  /\ ~isAdmin
  /\ Fetch([NoReq EXCEPT !.kind = "create", !.cEmail = email,
                         !.cAdmin = isAdmin])
  /\ UNCHANGED <<session, suggestions, viewSuggestion, loading, notification,
                 timers, db>>

\* onSubmit after res.ok: await loadSuggestions() of the render the form
\* was submitted in, then the success notification.
CreateOk(r) ==
  /\ Step("createOk", 0)
  /\ Answered(r, "create")
  /\ r.out = "ok"
  /\ IF r.cEmail = ""
       THEN /\ Done(r)
            /\ showNotification(AfterLoad("create"))
       ELSE /\ Refetch(r, LoadReq(r.cEmail, r.cAdmin, "create"))
            /\ UNCHANGED <<notification, timers>>
  /\ UNCHANGED <<session, suggestions, viewSuggestion, loading, db>>

CreateFail(r) ==
  /\ Step("createFail", 0)
  /\ Answered(r, "create")
  /\ r.out # "ok"
  /\ showNotification(<<Note(ErrMsg(r.out, "Submit failed",
                                    "Submit failed. Check console."), "error")>>)
  /\ Done(r)
  /\ UNCHANGED <<session, suggestions, viewSuggestion, loading, db>>

\* A filter that keeps the record it was to remove.
RemoveId_kept(prev, id) == SelectSeq(prev, LAMBDA s : s.id = id)

\* prev.filter((s) => s._id !== id)
RemoveId(prev, id) == SelectSeq(prev, LAMBDA s : s.id # id)

\* prev.map((s) => (s._id === id ? updated : s))
ReplaceId(prev, id, updated) ==
  [k \in 1..Len(prev) |-> IF prev[k].id = id THEN updated ELSE prev[k]]

\* if (viewSuggestion && viewSuggestion._id === id) setViewSuggestion(value),
\* with the viewSuggestion of the render the handler was created in (cView).
SetViewIfShown(cView, id, value, cur) ==
  IF cView # 0 /\ cView = id THEN value ELSE cur

\* handleDelete that sends the DELETE before it asks for confirmation.
DeleteDeclined_fetch(id) ==
  /\ Step("deleteDeclined", id)
  /\ loggedIn
  /\ ~isAdmin
  /\ InCache(id)
  /\ Fetch([NoReq EXCEPT !.kind = "delete", !.id = id, !.cEmail = email,
                         !.cAdmin = isAdmin, !.cView = viewSuggestion.id])
  /\ UNCHANGED <<session, suggestions, viewSuggestion, loading, notification,
                 timers, db>>

\* The Delete button of a row (students only), confirmation declined.
DeleteDeclined(id) ==
  /\ Step("deleteDeclined", id)
  /\ loggedIn
  /\ ~isAdmin
  /\ InCache(id)
  /\ UNCHANGED <<session, suggestions, viewSuggestion, loading, notification,
                 timers, inflight, calls, db>>

\* The Delete button of a row, confirmed: handleDelete up to its fetch.
DeleteIssue(id) ==
  /\ Step("deleteIssue", id)
  /\ loggedIn
  /\ ~isAdmin
  /\ InCache(id)
  /\ Fetch([NoReq EXCEPT !.kind = "delete", !.id = id, !.cEmail = email,
                         !.cAdmin = isAdmin, !.cView = viewSuggestion.id])
  /\ UNCHANGED <<session, suggestions, viewSuggestion, loading, notification,
                 timers, db>>

\* handleDelete that removes the record without telling the user.
DeleteOk_silent(r) ==
  /\ Step("deleteOk", r.id)
  /\ Answered(r, "delete")
  /\ r.out = "ok"
  /\ suggestions' = RemoveId(suggestions, r.id)
  /\ viewSuggestion' = SetViewIfShown(r.cView, r.id,
                                      NoRec, viewSuggestion)
  /\ Done(r)
  /\ UNCHANGED <<session, loading, notification, timers, db>>

DeleteOk(r) ==
  /\ Step("deleteOk", r.id)
  /\ Answered(r, "delete")
  /\ r.out = "ok"
  /\ suggestions' = RemoveId(suggestions, r.id)
  /\ viewSuggestion' = SetViewIfShown(r.cView, r.id,
                                      NoRec, viewSuggestion)
  /\ showNotification(<<Note("Suggestion deleted successfully!", "success")>>)
  /\ Done(r)
  /\ UNCHANGED <<session, loading, db>>

DeleteFail(r) ==
  /\ Step("deleteFail", r.id)
  /\ Answered(r, "delete")
  /\ r.out # "ok"
  /\ showNotification(<<Note(ErrMsg(r.out, "Delete failed",
                                    "Delete failed. Check console."), "error")>>)
  /\ Done(r)
  /\ UNCHANGED <<session, suggestions, viewSuggestion, loading, db>>

\* Status buttons that leave out the test on "in-progress".
Offered_repeat(cached) ==
  IF cached \in {"resolved", "invalid"} THEN {}
  ELSE {"in-progress", "resolved", "invalid"}

\* The status buttons a row renders (admins only): none for resolved or
\* invalid, no "In Progress" for in-progress.
Offered(cached) ==
  IF cached \in {"resolved", "invalid"} THEN {}
  ELSE (IF cached # "in-progress" THEN {"in-progress"} ELSE {})
       \cup {"resolved", "invalid"}

\* `Status updated to "${status}"`
StatusMsg(status) ==
  CASE status = "in-progress" -> "Status updated to \"in-progress\""
    [] status = "resolved" -> "Status updated to \"resolved\""
    [] status = "invalid" -> "Status updated to \"invalid\""
    [] OTHER -> "Status updated to \"pending\""

\* updatedBy = isPrincipal ? "Principal" : "HOD"
UpdatedBy(principal) == IF principal THEN "Principal" ELSE "HOD"

\* A status button of a row: handleStatusChange up to its fetch.
StatusIssue(id, status) ==
  /\ Step("statusIssue", id)
  /\ loggedIn
  /\ isAdmin
  /\ InCache(id)
  /\ status \in Offered(CachedStatus(id))
  /\ Fetch([NoReq EXCEPT !.kind = "status", !.id = id, !.status = status,
                         !.cEmail = email, !.cAdmin = isAdmin,
                         !.cView = viewSuggestion.id,
                         !.updatedBy = UpdatedBy(isPrincipal)])
  /\ UNCHANGED <<session, suggestions, viewSuggestion, loading, notification,
                 timers, db>>

StatusOk(r) ==
  /\ Step("statusOk", r.id)
  /\ Answered(r, "status")
  /\ r.out = "ok"
  /\ suggestions' = ReplaceId(suggestions, r.id, r.body[1])
  /\ viewSuggestion' = SetViewIfShown(r.cView, r.id,
                                      r.body[1], viewSuggestion)
  /\ showNotification(<<Note(StatusMsg(r.status), "success")>>)
  /\ Done(r)
  /\ UNCHANGED <<session, loading, db>>

StatusFail(r) ==
  /\ Step("statusFail", r.id)
  /\ Answered(r, "status")
  /\ r.out # "ok"
  /\ showNotification(<<Note(ErrMsg(r.out, "Status update failed",
                                    "Status update failed. Check console."),
                             "error")>>)
  /\ Done(r)
  /\ UNCHANGED <<session, suggestions, viewSuggestion, loading, db>>

\* handleView that always takes the student endpoint.
ViewIssue_student(id) ==
  /\ Step("viewIssue", id)
  /\ loggedIn
  /\ InCache(id)
  /\ Fetch([NoReq EXCEPT !.kind = "view", !.id = id, !.cEmail = email,
                         !.cAdmin = FALSE])
  /\ UNCHANGED <<session, suggestions, viewSuggestion, loading, notification,
                 timers, db>>

\* The View button of a row: handleView up to its fetch (the admin endpoint
\* when isAdmin, the student endpoint with email otherwise).
ViewIssue(id) ==
  /\ Step("viewIssue", id)
  /\ loggedIn
  /\ InCache(id)
  /\ Fetch([NoReq EXCEPT !.kind = "view", !.id = id, !.cEmail = email,
                         !.cAdmin = isAdmin])
  /\ UNCHANGED <<session, suggestions, viewSuggestion, loading, notification,
                 timers, db>>

ViewOk(r) ==
  /\ Step("viewOk", r.id)
  /\ Answered(r, "view")
  /\ r.out = "ok"
  /\ viewSuggestion' = r.body[1]
  /\ Done(r)
  /\ UNCHANGED <<session, suggestions, loading, notification, timers, db>>

ViewFail(r) ==
  /\ Step("viewFail", r.id)
  /\ Answered(r, "view")
  /\ r.out # "ok"
  /\ showNotification(<<Note(ErrMsg(r.out,
                                    "Failed to load suggestion details",
                                    "Failed to load suggestion details. Check console."),
                             "error")>>)
  /\ Done(r)
  /\ UNCHANGED <<session, suggestions, viewSuggestion, loading, db>>

\* The modal (rendered when viewSuggestion is set): its backdrop and Close.
closeView ==
  /\ Step("closeView", 0)
  /\ loggedIn
  /\ viewSuggestion # NoRec
  /\ viewSuggestion' = NoRec
  /\ UNCHANGED <<session, suggestions, loading, notification, timers,
                 inflight, calls, db>>

\* ------------------------------------------------------ filter pipeline
\* A string is the sequence of its characters.  Missing is a title or a
\* description the record does not have (undefined or null).
Missing == <<"undefined">>

\* x || ""
OrEmpty(x) == IF x = Missing THEN <<>> ELSE x

\* String.prototype.toLowerCase
LowerChar(c) == CASE c = "A" -> "a" [] c = "B" -> "b" [] OTHER -> c
ToLower(str) == [k \in 1..Len(str) |-> LowerChar(str[k])]

\* String.prototype.includes: t occurs in str at some offset.
Includes(str, t) ==
  \E k \in 0..(Len(str) - Len(t)) : SubSeq(str, k + 1, k + Len(t)) = t

\* new Date(createdAt) as a number: createdAt is a date-time with a UTC
\* offset, <<local time, offset>>, and its time value is the instant.
TimeValue(createdAt) == createdAt[1] - createdAt[2]

MatchesStatus(s) == IF statusFilter = "all" THEN TRUE ELSE s.status = statusFilter

MatchesCategory(s) ==
  IF categoryFilter = "all" THEN TRUE ELSE s.category = categoryFilter

\* The search predicate with the search term left in the case it was typed.
MatchesSearch_rawTerm(s) ==
  \/ Includes(ToLower(OrEmpty(s.title)), searchTerm)
  \/ Includes(ToLower(OrEmpty(s.description)), searchTerm)

MatchesSearch(s) ==
  \/ Includes(ToLower(OrEmpty(s.title)), ToLower(searchTerm))
  \/ Includes(ToLower(OrEmpty(s.description)), ToLower(searchTerm))

\* The comparator handed to sort: negative when a goes before b.
compareFn(a, b) ==
  IF sortOrder = "newest"
    THEN TimeValue(b.createdAt) - TimeValue(a.createdAt)
    ELSE TimeValue(a.createdAt) - TimeValue(b.createdAt)

\* Array.prototype.sort (stable since ES2019): x goes behind the last
\* element that does not compare greater than it.
RECURSIVE Insert(_, _)
Insert(x, arr) ==
  IF arr = <<>> THEN <<x>>
  ELSE IF compareFn(arr[Len(arr)], x) <= 0 THEN Append(arr, x)
  ELSE Append(Insert(x, SubSeq(arr, 1, Len(arr) - 1)), arr[Len(arr)])

RECURSIVE sort(_)
sort(arr) ==
  IF arr = <<>> THEN <<>>
  ELSE Insert(arr[Len(arr)], sort(SubSeq(arr, 1, Len(arr) - 1)))

\* The rows of the table.  Each .filter returns a new array and .sort
\* rearranges the array the last .filter returned, so the array held in
\* suggestions is only read.
filteredSuggestions ==
  sort(SelectSeq(SelectSeq(SelectSeq(suggestions, MatchesStatus),
                           MatchesCategory),
                 MatchesSearch))

\* The options of the two selects and the texts typed into the search box.
StatusOptions == {"all", "pending", "resolved"}
CategoryOptions == {"all", "academics"}
SearchTerms == {<<>>, <<"a">>, <<"B">>}
SortOptions == {"newest", "oldest"}

\* The onChange handlers of the filter controls (rendered when logged in).
ChangeStatusFilter(v) ==
  /\ loggedIn
  /\ v # statusFilter
  /\ statusFilter' = v
  /\ last' = [op |-> "filter", id |-> 0]
  /\ UNCHANGED <<session, suggestions, viewSuggestion, categoryFilter,
                 searchTerm, sortOrder, loading, notification, timers,
                 inflight, calls, db>>

ChangeCategoryFilter(v) ==
  /\ loggedIn
  /\ v # categoryFilter
  /\ categoryFilter' = v
  /\ last' = [op |-> "filter", id |-> 0]
  /\ UNCHANGED <<session, suggestions, viewSuggestion, statusFilter,
                 searchTerm, sortOrder, loading, notification, timers,
                 inflight, calls, db>>

ChangeSearchTerm(v) ==
  /\ loggedIn
  /\ v # searchTerm
  /\ searchTerm' = v
  /\ last' = [op |-> "filter", id |-> 0]
  /\ UNCHANGED <<session, suggestions, viewSuggestion, statusFilter,
                 categoryFilter, sortOrder, loading, notification, timers,
                 inflight, calls, db>>

ChangeSortOrder(v) ==
  /\ loggedIn
  /\ v # sortOrder
  /\ sortOrder' = v
  /\ last' = [op |-> "filter", id |-> 0]
  /\ UNCHANGED <<session, suggestions, viewSuggestion, statusFilter,
                 categoryFilter, searchTerm, loading, notification, timers,
                 inflight, calls, db>>

\* ------------------------------------------------------- specification
\* The component after its first render, in front of a backend that holds
\* any set of pending suggestions.
Init ==
  /\ loggedIn = FALSE
  /\ email = ""
  /\ isAdmin = FALSE
  /\ isPrincipal = FALSE
  /\ department = ""
  /\ suggestions = <<>>
  /\ viewSuggestion = NoRec
  /\ statusFilter = "all"
  /\ categoryFilter = "all"
  /\ searchTerm = <<>>
  /\ sortOrder = "newest"
  /\ loading = FALSE
  /\ notification = NoNote
  /\ timers = 0
  /\ inflight = EmptyBag
  /\ calls = 0
  /\ last = [op |-> "init", id |-> 0]
  /\ db \in {[id \in Ids |-> IF id \in S THEN Rec(id, "pending") ELSE NoRec] :
               S \in SUBSET Ids}

Next ==
  \/ LoginNoCredential
  \/ \E a \in Accounts : LoginIssue(a)
  \/ \E r \in BagToSet(inflight) : LoginOk(r)
  \/ \E r \in BagToSet(inflight) : LoginFail(r)
  \/ handleLogout
  \/ TimerFire
  \/ handleRefresh
  \/ \E r \in BagToSet(inflight) : LoadOk(r)
  \/ \E r \in BagToSet(inflight) : LoadFail(r)
  \/ CreateIssue
  \/ \E r \in BagToSet(inflight) : CreateOk(r)
  \/ \E r \in BagToSet(inflight) : CreateFail(r)
  \/ \E id \in Ids : DeleteDeclined(id)
  \/ \E id \in Ids : DeleteIssue(id)
  \/ \E r \in BagToSet(inflight) : DeleteOk(r)
  \/ \E r \in BagToSet(inflight) : DeleteFail(r)
  \/ \E id \in Ids, st \in {"in-progress", "resolved", "invalid"} : StatusIssue(id, st)
  \/ \E r \in BagToSet(inflight) : StatusOk(r)
  \/ \E r \in BagToSet(inflight) : StatusFail(r)
  \/ \E id \in Ids : ViewIssue(id)
  \/ \E r \in BagToSet(inflight) : ViewOk(r)
  \/ \E r \in BagToSet(inflight) : ViewFail(r)
  \/ closeView
  \/ \E r \in BagToSet(inflight) : Backend(r)

Spec == Init /\ [][Next]_vars

TypeOK ==
  /\ loggedIn \in BOOLEAN
  /\ isAdmin \in BOOLEAN
  /\ isPrincipal \in BOOLEAN
  /\ loading \in BOOLEAN
  /\ timers \in 0..MaxTimers
  /\ calls \in 0..MaxCalls
  /\ BagCardinality(inflight) <= MaxInFlight
  /\ Len(suggestions) <= MaxId

Calls == BagToSet(inflight)

\* The filter pipeline on its own: a student is logged in, the load has
\* delivered a cache of up to MaxRows records (ids in cache order) and no
\* call is outstanding; the user works the filter controls.
Texts ==
  {[title |-> <<"A", "b">>, description |-> Missing],
   [title |-> <<>>, description |-> <<"b">>]}
Stamps == {<<1, 0>>, <<2, 0>>, <<2, 1>>}
Rows ==
  [status : {"pending", "resolved"}, category : {"academics", "other"},
   text : Texts, createdAt : Stamps]
Row(i, x) ==
  [id |-> i, status |-> x.status, category |-> x.category,
   title |-> x.text.title, description |-> x.text.description,
   createdAt |-> x.createdAt]

FilterInit ==
  /\ loggedIn = TRUE
  /\ email = AccountInfo("student").email
  /\ isAdmin = AccountInfo("student").isAdmin
  /\ isPrincipal = AccountInfo("student").isPrincipal
  /\ department = AccountInfo("student").department
  /\ \E n \in 0..MaxRows : \E f \in [1..n -> Rows] :
       suggestions = [i \in 1..n |-> Row(i, f[i])]
  /\ viewSuggestion = NoRec
  /\ statusFilter = "all"
  /\ categoryFilter = "all"
  /\ searchTerm = <<>>
  /\ sortOrder = "newest"
  /\ loading = FALSE
  /\ notification = NoNote
  /\ timers = 0
  /\ inflight = EmptyBag
  /\ calls = 2
  /\ last = [op |-> "loadOk", id |-> 0]
  /\ db = [id \in Ids |-> NoRec]

FilterNext ==
  \/ \E v \in StatusOptions : ChangeStatusFilter(v)
  \/ \E v \in CategoryOptions : ChangeCategoryFilter(v)
  \/ \E v \in SearchTerms : ChangeSearchTerm(v)
  \/ \E v \in SortOptions : ChangeSortOrder(v)

SpecFilter == FilterInit /\ [][FilterNext]_vars

\* ------------------------------------------------------------- claims

\* C1: a notification stays visible until its own 4-second deadline unless
\* a newer one replaces it.  The timer of the live notification is the one
\* scheduled last, so a timeout callback that clears a live notification
\* must be the only one pending.
C1_OnlyOwnTimerClears ==
  [][(TimerFire /\ notification # NoNote) => timers = 1]_vars

\* C2: when the delete response is applied, the selection is cleared if it
\* is the deleted record at that time, and left untouched otherwise.
C2_DeleteClearsSelection ==
  [][\A r \in Calls :
       DeleteOk(r) =>
         viewSuggestion' = IF viewSuggestion.id = r.id THEN NoRec
                           ELSE viewSuggestion]_vars

\* C3: a status response for a record that is not the current selection
\* (or with no selection) leaves the selection unchanged.
C3_StatusKeepsOtherSelection ==
  [][\A r \in Calls :
       ((StatusOk(r) \/ StatusFail(r)) /\ viewSuggestion.id # r.id)
         => viewSuggestion' = viewSuggestion]_vars

\* The calls that carry the identity of the session: the list endpoints
\* and the student view endpoint (?email=), and the create body ({email}).
NeedsIdentity(r) ==
  \/ r.kind \in {"load", "create"}
  \/ r.kind = "view" /\ ~r.cAdmin

\* C4: while the session is empty (after logout, before the next successful
\* login) no step issues a network call that requires identity: a step that
\* ends with the session empty adds no such call to the calls in flight.
C4_NoIdentityCallLoggedOut ==
  [][~loggedIn' =>
       \A r \in BagToSet(inflight') :
         (NeedsIdentity(r) /\ r.out = "")
           => CopiesIn(r, inflight') <= CopiesIn(r, inflight)]_vars

SessionDefault ==
  email = "" /\ ~isAdmin /\ ~isPrincipal /\ department = ""

\* C5: an unauthenticated session has every other field at its default; a
\* failed login changes no session field and emits an error notification;
\* a successful login sets all fields from the response in one step.
C5_SessionAtomic ==
  /\ (~loggedIn => SessionDefault)
  /\ [][/\ ~loggedIn' => SessionDefault'
        /\ \A r \in Calls :
             /\ LoginFail(r) =>
                  /\ UNCHANGED session
                  /\ notification'.type = "error"
                  /\ timers' = timers + 1
             /\ LoginOk(r) =>
                  /\ loggedIn'
                  /\ email' = AccountInfo(r.acct).email
                  /\ isAdmin' = AccountInfo(r.acct).isAdmin
                  /\ isPrincipal' = AccountInfo(r.acct).isPrincipal
                  /\ department' = AccountInfo(r.acct).department]_vars

\* A login has just failed and left the session empty.
C5_Witness ==
  /\ last.op = "loginFail"
  /\ ~loggedIn
  /\ SessionDefault
  /\ notification = Note(ServerError, "error")

\* C6: logout leaves the session empty, the cache empty, the selection
\* unset and its own info notification live; applying logout to the state
\* it produced gives that state again.
C6_LogoutResets ==
  [][handleLogout =>
       /\ ~loggedIn'
       /\ SessionDefault'
       /\ suggestions' = <<>>
       /\ viewSuggestion' = NoRec
       /\ notification' = Note("Logged out successfully", "info")
       /\ LogoutResult(View') = View']_vars

\* Logout has just run on a session that had loaded suggestions.
C6_Witness ==
  /\ last.op = "logout"
  /\ ~loggedIn
  /\ suggestions = <<>>
  /\ ListOf(db) # <<>>
  /\ calls >= 2
  /\ BagCardinality(inflight) = 0

\* C7: a set selection always refers to a record of the cache.
C7_SelectionInCache ==
  viewSuggestion # NoRec => InCache(viewSuggestion.id)

\* C8: a successful status change replaces exactly the matching cache
\* entry by the returned record, replaces the selection if it currently
\* shows that record, was sent with updatedBy derived from isPrincipal and
\* notifies "Status updated to <status>"; a failed one leaves the cache and
\* notifies an error.
C8_StatusChange ==
  [][/\ \A id \in Ids, st \in {"in-progress", "resolved", "invalid"} :
          StatusIssue(id, st) =>
            \E r \in BagToSet(inflight') :
              /\ r.kind = "status" /\ r.id = id /\ r.status = st /\ r.out = ""
              /\ r.updatedBy = IF isPrincipal THEN "Principal" ELSE "HOD"
     /\ \A r \in Calls :
          /\ StatusOk(r) =>
               /\ Len(suggestions') = Len(suggestions)
               /\ \A k \in 1..Len(suggestions) :
                    suggestions'[k] = IF suggestions[k].id = r.id
                                        THEN r.body[1] ELSE suggestions[k]
               /\ viewSuggestion' = IF viewSuggestion.id = r.id
                                      THEN r.body[1] ELSE viewSuggestion
               /\ notification' = Note(StatusMsg(r.status), "success")
          /\ StatusFail(r) =>
               /\ suggestions' = suggestions
               /\ notification'.type = "error"]_vars

\* C9: a completed load sets the cache to exactly the returned list on
\* success, and to the empty list with an error notification on failure;
\* applying the same response once more leaves the cache as it is.
C9_LoadReplaces ==
  [][\A r \in Calls :
       /\ (LoadOk(r) /\ r.out = "ok") =>
            /\ suggestions' = r.body
            /\ LoadResult(suggestions', r) = suggestions'
       /\ LoadFail(r) =>
            /\ suggestions' = <<>>
            /\ LoadResult(suggestions', r) = suggestions'
            /\ timers' = timers + 1 + Len(AfterLoad(r.cont))
            /\ r.cont = "effect" => notification'.type = "error"]_vars

\* A refresh (a load after the one of the login) has just completed with a
\* response of one record.
C9_Witness ==
  /\ last.op = "loadOk"
  /\ notification = Note("Suggestions refreshed", "info")
  /\ Len(suggestions) = 1
  /\ calls = MaxCalls

\* C10: a successful submit appends nothing and issues a load, after which
\* the success notification is live; a failed submit issues no load, leaves
\* the cache and notifies an error, the server's message when it sent one.
C10_Create ==
  [][\A r \in Calls :
       /\ CreateOk(r) =>
            /\ suggestions' = suggestions
            /\ \E l \in BagToSet(inflight') :
                 /\ l.kind = "load" /\ l.cont = "create" /\ l.out = ""
                 /\ CopiesIn(l, inflight') = CopiesIn(l, inflight) + 1
       /\ ((LoadOk(r) \/ LoadFail(r)) /\ r.cont = "create") =>
            notification' = Note("Suggestion submitted!", "success")
       /\ CreateFail(r) =>
            /\ suggestions' = suggestions
            /\ inflight' = inflight (-) SetToBag({r})
            /\ notification'.type = "error"
            /\ r.out = "err" => notification'.message = ServerError]_vars

\* The load issued by a successful submit has brought the new record.
C10_Witness ==
  /\ last.op = "loadOk"
  /\ notification = Note("Suggestion submitted!", "success")
  /\ suggestions # <<>>
  /\ loggedIn

\* C11: a delete whose confirmation is declined issues no network call and
\* leaves the cache, the selection and the notification as they are.
C11_DeclinedDeleteNoOp ==
  [][\A id \in Ids :
       DeleteDeclined(id) =>
         UNCHANGED <<inflight, calls, db, suggestions, viewSuggestion,
                     notification, timers, session, loading>>]_vars

\* A delete has just been declined with a record cached, a detail view
\* open and a notification live.
C11_Witness ==
  /\ last.op = "deleteDeclined"
  /\ InCache(last.id)
  /\ viewSuggestion # NoRec
  /\ notification # NoNote

\* C12: view takes the admin endpoint iff isAdmin, else the student
\* endpoint with the session email; a 2xx sets the selection to the
\* returned record; a failure leaves selection and cache and notifies an
\* error; closeView leaves the selection unset.
C12_View ==
  [][/\ \A id \in Ids :
          ViewIssue(id) =>
            \E r \in BagToSet(inflight') :
              /\ r.kind = "view" /\ r.id = id /\ r.out = ""
              /\ CopiesIn(r, inflight') = CopiesIn(r, inflight) + 1
              /\ r.cAdmin = isAdmin
              /\ ~isAdmin => r.cEmail = email
     /\ \A r \in Calls :
          /\ ViewOk(r) =>
               /\ viewSuggestion' = r.body[1]
               /\ viewSuggestion'.id = r.id
               /\ suggestions' = suggestions
          /\ ViewFail(r) =>
               /\ viewSuggestion' = viewSuggestion
               /\ suggestions' = suggestions
               /\ notification'.type = "error"
               /\ timers' = timers + 1
     /\ closeView => viewSuggestion' = NoRec]_vars

\* A view has just failed while the detail view was showing a record.
C12_Witness ==
  /\ last.op = "viewFail"
  /\ viewSuggestion # NoRec
  /\ notification.type = "error"
  /\ isAdmin

\* The load of a refresh completes: the continuation of handleRefresh runs.
RefreshCompletes ==
  \E r \in Calls : (LoadOk(r) \/ LoadFail(r)) /\ r.cont = "refresh"

RefreshOutstanding ==
  \E r \in Calls : r.kind = "load" /\ r.cont = "refresh"

\* The scheduling the event loop gives: the backend answers a call that is
\* outstanding, the continuation of an answered refresh runs, and the
\* pending timeouts run out (each is due 4 s after it was set, whatever
\* else happens).
LiveSpec ==
  /\ Spec
  /\ WF_vars(\E r \in Calls : Backend(r))
  /\ SF_vars(RefreshCompletes)
  /\ \A k \in 1..MaxTimers : SF_vars(TimerFire /\ timers = k)

\* C13: a manual refresh sets the busy flag when it issues its load, the
\* flag stays set while that load is outstanding, and the completion of
\* the load, 2xx or not, clears it and leaves the "Suggestions refreshed"
\* info notification live; the busy flag is eventually cleared.
C13_RefreshBusy ==
  /\ [][/\ handleRefresh => (loading' /\ RefreshOutstanding')
        /\ RefreshCompletes =>
             /\ ~loading'
             /\ notification' = Note("Suggestions refreshed", "info")]_vars
  /\ [](RefreshOutstanding => loading)
  /\ (loading ~> ~loading)

\* A refresh whose load failed has just completed.
C13_Witness ==
  /\ last.op = "loadFail"
  /\ ~loading
  /\ notification = Note("Suggestions refreshed", "info")
  /\ suggestions = <<>>

\* C14: for every cache and every setting of the filter controls the rows
\* are exactly the cache records that pass the status filter, the category
\* filter and the search (the term occurs in the title or the description,
\* letter case ignored), each once; they are in descending order of
\* createdAt for "newest" and ascending otherwise, records of the same
\* instant in cache order (so the sequence is determined by the inputs);
\* and working the controls leaves the cache as it was.
SameLetter(c, d) ==
  \/ c = d
  \/ {c, d} = {"a", "A"}
  \/ {c, d} = {"b", "B"}
Occurs(t, str) ==
  \E k \in 0..Len(str) :
    /\ k + Len(t) <= Len(str)
    /\ \A m \in 1..Len(t) : SameLetter(str[k + m], t[m])
Passes(s) ==
  /\ statusFilter \in {"all", s.status}
  /\ categoryFilter \in {"all", s.category}
  /\ \/ s.title # Missing /\ Occurs(searchTerm, s.title)
     \/ s.description # Missing /\ Occurs(searchTerm, s.description)
     \/ searchTerm = <<>>
CacheIndex(s) == CHOOSE k \in 1..Len(suggestions) : suggestions[k] = s
C14_FilterPipeline ==
  /\ [](LET out == filteredSuggestions
        IN /\ \A k \in 1..Len(out) :
                \E j \in 1..Len(suggestions) : suggestions[j] = out[k]
           /\ \A j \in 1..Len(suggestions) :
                Cardinality({k \in 1..Len(out) : out[k] = suggestions[j]})
                  = IF Passes(suggestions[j]) THEN 1 ELSE 0
           /\ \A i, j \in 1..Len(out) :
                i < j =>
                  LET ti == TimeValue(out[i].createdAt)
                      tj == TimeValue(out[j].createdAt)
                  IN /\ sortOrder = "newest" => ti >= tj
                     /\ sortOrder # "newest" => ti <= tj
                     /\ ti = tj => CacheIndex(out[i]) < CacheIndex(out[j]))
  /\ [][suggestions' = suggestions]_vars
C14_Witness ==
  /\ statusFilter = "pending" /\ categoryFilter = "academics"
  /\ searchTerm = <<"a">> /\ sortOrder = "oldest"
  /\ Len(suggestions) = 3
  /\ Len(filteredSuggestions) = 2
  /\ filteredSuggestions[1].id = 3
  /\ filteredSuggestions[2].id = 1

\* C15 as stated: each of load, create, remove (once confirmed),
\* changeStatus and view emits a notification when it completes, on its
\* success path as well as on its failure path.
C15_AllNotify ==
  [][\A r \in Calls :
       (\/ LoadOk(r) \/ LoadFail(r)
        \/ (CreateOk(r) /\ r.cEmail = "") \/ CreateFail(r)
        \/ DeleteOk(r) \/ DeleteFail(r)
        \/ StatusOk(r) \/ StatusFail(r)
        \/ ViewOk(r) \/ ViewFail(r)) => timers' > timers]_vars

\* C15 amended: create, remove (once confirmed) and changeStatus emit a
\* notification when they complete, a success notification on the success
\* path and an error notification on the failure path; load and view emit
\* one on their failure path only: a load that succeeded emits nothing of
\* its own (the refresh or create that awaited it then emits theirs) and a
\* view that succeeded emits nothing.
C15_Notifications ==
  [][\A r \in Calls :
       /\ (CreateFail(r) \/ DeleteFail(r) \/ StatusFail(r) \/ ViewFail(r)) =>
            /\ timers' = timers + 1
            /\ notification'.type = "error"
       /\ (DeleteOk(r) \/ StatusOk(r)) =>
            /\ timers' = timers + 1
            /\ notification'.type = "success"
       /\ ((LoadOk(r) \/ LoadFail(r)) /\ r.cont = "create") =>
            /\ timers' > timers
            /\ notification' = Note("Suggestion submitted!", "success")
       /\ LoadFail(r) =>
            /\ timers' > timers
            /\ (r.cont = "effect" => notification'.type = "error")
       /\ LoadOk(r) =>
            /\ timers' = timers + Len(AfterLoad(r.cont))
            /\ (r.cont = "effect" => UNCHANGED <<notification, timers>>)
       /\ ViewOk(r) => UNCHANGED <<notification, timers>>]_vars
C15_Witness ==
  /\ last.op = "viewOk"
  /\ viewSuggestion # NoRec
  /\ notification = NoNote
  /\ timers = 0

\* C16: for each of login, load, create, remove, changeStatus and view, a
\* non-2xx response with an error string is followed by an error
\* notification carrying that string, and a rejected fetch or unparsable
\* body by an error notification with a generic message (a load awaited by
\* a refresh or a create is followed by the caller's notification, which
\* replaces it; there the error is only required to have been notified).
C16_ErrorsSurfaced ==
  [][\A r \in Calls :
       (\/ LoginFail(r) \/ LoadFail(r) \/ CreateFail(r)
        \/ DeleteFail(r) \/ StatusFail(r) \/ ViewFail(r)) =>
         /\ timers' > timers
         /\ (r.kind = "load" /\ r.cont # "effect") \/
              /\ notification'.type = "error"
              /\ r.out = "err" => notification'.message = ServerError
              /\ r.out = "throw" => notification'.message # ServerError]_vars

\* C17: every completion of a call writes the cache in one step, as a
\* function of the call's response and of the cache as it stands when the
\* call completes (not as it stood when the call was issued): a load
\* replaces it with the list received (empty on failure), a delete takes
\* the record of its id out of it, a status change puts the returned
\* record in the place of the record of its id, and the completion of any
\* other call leaves it alone.  Two calls in flight therefore take effect
\* in the order they complete, the later on the result of the earlier.
C17_CompletionOrder ==
  [][\A r \in Calls :
       /\ LoadOk(r) => suggestions' = IF r.out = "ok" THEN r.body ELSE <<>>
       /\ LoadFail(r) => suggestions' = <<>>
       /\ DeleteOk(r) =>
            suggestions' = SelectSeq(suggestions, LAMBDA s : s.id # r.id)
       /\ StatusOk(r) =>
            /\ Len(suggestions') = Len(suggestions)
            /\ \A k \in 1..Len(suggestions) :
                 suggestions'[k] = IF suggestions[k].id = r.id
                                     THEN r.body[1] ELSE suggestions[k]
       /\ (\/ LoginOk(r) \/ LoginFail(r) \/ CreateOk(r) \/ CreateFail(r)
           \/ DeleteFail(r) \/ StatusFail(r) \/ ViewOk(r) \/ ViewFail(r)) =>
            suggestions' = suggestions]_vars
\* A delete and a load were in flight together; the load was answered
\* before the record was deleted and completed after the delete did.
C17_Witness ==
  /\ last.op = "loadOk"
  /\ InCache(1)
  /\ ~Present(db, 1)
  /\ notification = Note("Suggestions refreshed", "info")
  /\ timers = 2
  /\ inflight = EmptyBag

\* C18: in every reachable state at most one auto-dismiss timer is pending.
C18_OneTimer == timers <= 1

\* C19: a status change is started only by an admin, for a record in the
\* cache, towards a target that is a forward transition of the status the
\* cache holds for it (pending: in-progress, resolved, invalid;
\* in-progress: resolved, invalid; resolved and invalid: none); a delete is
\* started, or its confirmation declined, only by a user who is not admin.
Statuses == {"pending", "in-progress", "resolved", "invalid"}
ForwardTargets(cached) ==
  CASE cached = "pending" -> {"in-progress", "resolved", "invalid"}
    [] cached = "in-progress" -> {"resolved", "invalid"}
    [] OTHER -> {}
C19_OfferedActions ==
  [][/\ \A id \in Ids, st \in Statuses :
          StatusIssue(id, st) =>
            /\ isAdmin
            /\ InCache(id)
            /\ st \in ForwardTargets(CachedStatus(id))
     /\ \A id \in Ids :
          (loggedIn /\ isAdmin /\ InCache(id)
             /\ BagCardinality(inflight) < MaxInFlight /\ calls < MaxCalls)
            => \A st \in ForwardTargets(CachedStatus(id)) :
                 ENABLED StatusIssue(id, st)
     /\ \A id \in Ids :
          (DeleteIssue(id) \/ DeleteDeclined(id)) => ~isAdmin]_vars
C19_Witness ==
  /\ last.op = "statusIssue"
  /\ InCache(last.id)
  /\ CachedStatus(last.id) = "in-progress"
  /\ \E r \in Calls : r.kind = "status" /\ r.id = last.id /\ r.status = "resolved"

\* C20: while nobody is logged in the cache is empty, no record is selected
\* and the busy flag is off, whatever responses arrive.
C20_LoggedOutClean ==
  ~loggedIn => (suggestions = <<>> /\ viewSuggestion = NoRec /\ ~loading)

\* C21: the status the cache shows for a record never moves backward when
\* a changeStatus response is applied: if the cache shows resolved or
\* invalid for an id, it does not show pending or in-progress for that id
\* afterwards.
Terminal == {"resolved", "invalid"}
C21_StatusNeverBackward ==
  [][\A r \in Calls :
       StatusOk(r) =>
         \A id \in Ids :
           (InCache(id) /\ CachedStatus(id) \in Terminal) =>
             \A k \in 1..Len(suggestions') :
               suggestions'[k].id = id => suggestions'[k].status \in Terminal]_vars
====
